---- MODULE Spec2Model ----
(***************************************************************************)
(* Model of streamlit_app.py: the "Generate Report" request handler, the   *)
(* fetch stage get_stock_data, and the report generators                   *)
(* generate_basic_report / generate_quantstats_report.                     *)
(*                                                                         *)
(* Conventions                                                             *)
(*   - a Python Optional is a sequence of length 0 (None) or 1 (Some(x));  *)
(*   - a Python string built by an f-string is the sequence of its pieces, *)
(*     so the empty string is << >> and is falsy, as in Python;            *)
(*   - a float is an exact fraction <<num, den>>, NaN is <<0, 0>>;         *)
(*   - a pandas Series is a sequence of [date, ret] records;               *)
(*   - the market-data provider, the QuantStats renderer and the metric    *)
(*     library calls are external: their outcomes are chosen with \E.      *)
(***************************************************************************)
EXTENDS Integers, Sequences, FiniteSets, TLC

\* ---------------------------------------------------------------- bounds
\* Timestamps of the provider's index are drawn from 1..MaxDate.
MaxDate == 2

\* ------------------------------------------------------- Python helpers
None == << >>

Some(x) == << x >>

IsNone(o) == Len(o) = 0

\* Python truthiness of an Optional[str]: None and "" are both falsy.
Truthy(o) == (Len(o) = 1) /\ (Len(o[1]) > 0)

\* Python truthiness of a str.
TruthyStr(s) == Len(s) > 0

\* ------------------------------------------------------------ the inputs
\* st.text_input(...).upper()
Tickers == {"SPY", "AAPL"}

\* st.selectbox options
BenchmarkOptions == {"SPY", "^GSPC"}

\* st.radio options
ReportTypes == {"Basic", "Full", "Detailed"}

\* Sample prices a provider row can carry.
Prices == {100, 110}

\* Columns a provider frame can carry.
Columns == {"Adj Close", "Close", "Volume"}

\* UTC offsets of a tz-aware index, in index units.
TzOffsets == {1}

\* Messages an external exception can carry; str(e) may be empty.
Messages == {<< >>, <<"boom">>}

\* Ascending sequence of the elements of a finite set of integers.
RECURSIVE SortedSeq(_)
SortedSeq(S) ==
    IF S = {} THEN << >>
    ELSE LET m == CHOOSE x \in S : \A y \in S : x <= y
         IN <<m>> \o SortedSeq(S \ {m})

\* The values of a column: Volume is never read by the program.
ColumnValues(c, n) ==
    IF c = "Volume" THEN {[i \in 1..n |-> 100]} ELSE [1..n -> Prices]

\* yf.Ticker(t).history(...) returning a DataFrame.
Frames ==
    UNION { UNION { { [kind |-> "frame", msg |-> << >>, index |-> SortedSeq(D),
                       tz |-> z, columns |-> cs, data |-> d] :
                      d \in { f \in [cs -> UNION {ColumnValues(c, Cardinality(D)) : c \in Columns}] :
                               \A c \in cs : f[c] \in ColumnValues(c, Cardinality(D)) },
                      z \in {None} \cup {Some(o) : o \in TzOffsets} } :
                    cs \in SUBSET Columns } :
            D \in SUBSET (1..MaxDate) }

\* yf.Ticker(t).history(...) raising.
Raises ==
    { [kind |-> "raise", msg |-> m, index |-> << >>, tz |-> None,
       columns |-> {}, data |-> << >>] : m \in Messages }

\* ------------------------------------------------------------- fractions
RECURSIVE Gcd(_, _)
Gcd(a, b) == IF b = 0 THEN a ELSE Gcd(b, a % b)

Abs(a) == IF a < 0 THEN -a ELSE a

\* The fraction n/d in lowest terms (d > 0).
Frac(n, d) == LET g == Gcd(Abs(n), d) IN <<n \div g, d \div g>>

NaN == <<0, 0>>

\* -------------------------------------------------------- get_stock_data
\* Variant of Empty that forgets the row axis.
Empty_ColumnsOnly(df) == df.columns = {}

\* df.empty: any axis of length 0.
Empty(df) == (Len(df.index) = 0) \/ (df.columns = {})

\* df.index.tz_convert('UTC').tz_localize(None) when df.index.tz is not None
NormalizeIndex(df) ==
    IF IsNone(df.tz) THEN df.index
    ELSE [i \in 1..Len(df.index) |-> df.index[i] - df.tz[1]]

\* prices.pct_change(): the first entry has no predecessor and is NaN.
PctChange(prices) ==
    [i \in 1..Len(prices) |->
        IF i = 1 THEN NaN
        ELSE Frac(prices[i] - prices[i - 1], prices[i - 1])]

\* .fillna(0)
FillNa0(values) ==
    [i \in 1..Len(values) |-> IF values[i] = NaN THEN <<0, 1>> ELSE values[i]]

\* A Series: the values of a column on the frame's index.
MakeSeries(index, values) ==
    [i \in 1..Len(index) |-> [date |-> index[i], ret |-> values[i]]]

\* Variant of PriceColumn with the fallback order reversed.
PriceColumn_ClosePreferred(df) ==
    IF "Close" \in df.columns THEN Some("Close")
    ELSE IF "Adj Close" \in df.columns THEN Some("Adj Close")
    ELSE None

\* The price column chosen by the fallback order; None when there is none.
PriceColumn(df) ==
    IF "Adj Close" \in df.columns THEN Some("Adj Close")
    ELSE IF "Close" \in df.columns THEN Some("Close")
    ELSE None

\* get_stock_data(ticker, start_date, end_date) on the provider's response:
\* the pair (returns, error).
get_stock_data(t, resp) ==
    IF resp.kind = "raise"
    THEN [returns |-> None, error |-> Some(resp.msg)]
    ELSE IF Empty(resp)
    THEN [returns |-> None, error |-> Some(<<"No data found for ", t>>)]
    ELSE IF IsNone(PriceColumn(resp))
    THEN [returns |-> None, error |-> Some(<<"Could not find price data for ", t>>)]
    ELSE [returns |-> Some(MakeSeries(NormalizeIndex(resp),
                               FillNa0(PctChange(resp.data[PriceColumn(resp)[1]])))),
          error |-> None]

\* ------------------------------------------------- generate_basic_report
\* The metric rows, in the order they are appended.
MetricNames ==
    <<"Total Return", "Annual Volatility", "Sharpe Ratio", "Max Drawdown",
      "Win Rate", "Best Day", "Worst Day">>

\* Outcome of a call: [raised |-> Optional message, value |-> str].
Returned(v) == [raised |-> None, value |-> v]

Raised(m) == [raised |-> Some(m), value |-> << >>]

\* generate_basic_report: `failing` is the index of the first metric whose
\* computation raises (0: none does), `m` the message it raises with.
generate_basic_report(t, failing, m) ==
    IF failing /= 0
    THEN Raised(<<"Error generating basic report: ">> \o m)
    ELSE Returned(<<"<div style='padding: 20px'><h2>Basic Performance Report for ", t, "</h2>">>
                  \o MetricNames \o <<"</div>">>)

\* -------------------------------------------- generate_quantstats_report
\* What qs.reports.html does with `output`.
RendererOutcomes ==
    { [kind |-> "raise", msg |-> m, written |-> << >>] : m \in Messages }
    \cup { [kind |-> "ok", msg |-> << >>, written |-> w] : w \in {<< >>, <<"<html>report</html>">>} }

\* Variant of generate_quantstats_report whose Basic branch falls through to
\* the renderer.
generate_quantstats_report_AlwaysRenders(t, rt, failing, m, rend) ==
    [invoked |-> TRUE,
     out |-> IF rend.kind = "raise"
             THEN Raised(<<"Error generating report: ">> \o rend.msg)
             ELSE Returned(rend.written)]

\* Variant of generate_quantstats_report that swallows the renderer's fault
\* and returns whatever was written.
generate_quantstats_report_SwallowsFault(t, rt, failing, m, rend) ==
    IF rt = "Basic"
    THEN LET r == generate_basic_report(t, failing, m)
         IN [invoked |-> FALSE,
             out |-> IF IsNone(r.raised) THEN r
                     ELSE Raised(<<"Error generating report: ">> \o r.raised[1])]
    ELSE [invoked |-> TRUE, out |-> Returned(rend.written)]

\* generate_quantstats_report: the outcome and whether the renderer was called.
generate_quantstats_report(t, rt, failing, m, rend) ==
    IF rt = "Basic"
    THEN LET r == generate_basic_report(t, failing, m)
         IN [invoked |-> FALSE,
             out |-> IF IsNone(r.raised) THEN r
                     ELSE Raised(<<"Error generating report: ">> \o r.raised[1])]
    ELSE [invoked |-> TRUE,
          out |-> IF rend.kind = "raise"
                  THEN Raised(<<"Error generating report: ">> \o rend.msg)
                  ELSE Returned(rend.written)]

\* ----------------------------------------------------------------- state
VARIABLES
    pc,                 \* position of the script run
    ticker,             \* st.text_input value
    benchmark,          \* st.selectbox value
    report_type,        \* st.radio value
    stock_returns,      \* Optional[Series]
    stock_error,        \* Optional[str]
    benchmark_returns,  \* Optional[Series]
    bench_error,        \* Optional[str]
    response,           \* Optional: what the provider did on the call whose result
                        \* is about to be checked (local to get_stock_data)
    provider_calls,     \* symbols passed to the provider, in call order
    generator_calls,    \* number of calls of generate_quantstats_report
    basic_failing,      \* first metric that raised in generate_basic_report (0: none)
    renderer_calls,     \* calls of qs.reports.html: arguments and whether it raised
    errors,             \* st.error messages shown
    infos,              \* st.info messages shown
    displayed,          \* st.components.v1.html payloads shown
    escaped             \* Optional: exception that left the handler uncaught

vars ==
    <<pc, ticker, benchmark, report_type, stock_returns, stock_error,
      benchmark_returns, bench_error, response, provider_calls, generator_calls,
      basic_failing, renderer_calls, errors, infos, displayed, escaped>>

inputs == <<ticker, benchmark, report_type>>

fetched == <<stock_returns, stock_error, benchmark_returns, bench_error>>

outputs == <<errors, infos, displayed, escaped>>

generation == <<generator_calls, basic_failing, renderer_calls>>

\* The widgets' default values, nothing fetched, nothing shown.
Init ==
    /\ pc = "ready"
    /\ ticker = "SPY"
    /\ benchmark = "SPY"
    /\ report_type = "Basic"
    /\ stock_returns = None
    /\ stock_error = None
    /\ benchmark_returns = None
    /\ bench_error = None
    /\ response = None
    /\ provider_calls = << >>
    /\ generator_calls = 0
    /\ basic_failing = 0
    /\ renderer_calls = << >>
    /\ errors = << >>
    /\ infos = << >>
    /\ displayed = << >>
    /\ escaped = None

\* --------------------------------------------------------------- widgets
EnterTicker(t) ==
    /\ pc = "ready"
    /\ ticker' = t
    /\ UNCHANGED <<pc, benchmark, report_type, fetched, response, provider_calls,
                   generation, outputs>>

SelectBenchmark(b) ==
    /\ pc = "ready"
    /\ benchmark' = b
    /\ UNCHANGED <<pc, ticker, report_type, fetched, response, provider_calls,
                   generation, outputs>>

SelectReportType(rt) ==
    /\ pc = "ready"
    /\ report_type' = rt
    /\ UNCHANGED <<pc, ticker, benchmark, fetched, response, provider_calls,
                   generation, outputs>>

\* st.button("Generate Report") pressed.
ClickGenerate ==
    /\ pc = "ready"
    /\ pc' = "fetch_stock"
    /\ UNCHANGED <<inputs, fetched, response, provider_calls, generation, outputs>>

\* --------------------------------------------------------------- handler
\* stock_returns, stock_error = get_stock_data(ticker, start_date, end_date)
CallStockOn(resp) ==
    LET r == get_stock_data(ticker, resp) IN
    /\ pc = "fetch_stock"
    /\ response' = Some(resp)
    /\ provider_calls' = Append(provider_calls, ticker)
    /\ stock_returns' = r.returns
    /\ stock_error' = r.error
    /\ pc' = "check_stock"
    /\ UNCHANGED <<inputs, benchmark_returns, bench_error, generation, outputs>>

FetchStock ==
    \/ \E resp \in Frames : CallStockOn(resp)
    \/ \E resp \in Raises : CallStockOn(resp)

\* if stock_error: st.error(...) else: go on to the benchmark
CheckStock ==
    /\ pc = "check_stock"
    /\ response' = None
    /\ IF Truthy(stock_error)
       THEN /\ errors' = Append(errors, <<"Error fetching ", ticker, " data: ">> \o stock_error[1])
            /\ pc' = "done"
       ELSE /\ errors' = errors
            /\ pc' = "fetch_benchmark"
    /\ UNCHANGED <<inputs, fetched, provider_calls, generation, infos, displayed,
                   escaped>>

\* benchmark_returns, bench_error = get_stock_data(benchmark, start_date, end_date)
CallBenchmarkOn(resp) ==
    LET r == get_stock_data(benchmark, resp) IN
    /\ pc = "fetch_benchmark"
    /\ response' = Some(resp)
    /\ provider_calls' = Append(provider_calls, benchmark)
    /\ benchmark_returns' = r.returns
    /\ bench_error' = r.error
    /\ pc' = "check_benchmark"
    /\ UNCHANGED <<inputs, stock_returns, stock_error, generation, outputs>>

FetchBenchmark ==
    \/ \E resp \in Frames : CallBenchmarkOn(resp)
    \/ \E resp \in Raises : CallBenchmarkOn(resp)

\* if bench_error: st.error(...) else: go on to the report
CheckBenchmark ==
    /\ pc = "check_benchmark"
    /\ response' = None
    /\ IF Truthy(bench_error)
       THEN /\ errors' = Append(errors, <<"Error fetching benchmark data: ">> \o bench_error[1])
            /\ pc' = "done"
       ELSE /\ errors' = errors
            /\ pc' = "info"
    /\ UNCHANGED <<inputs, fetched, provider_calls, generation, infos, displayed,
                   escaped>>

\* st.info(f"Retrieved {len(stock_returns)} ... {len(benchmark_returns)} ...");
\* len(None) raises TypeError outside any try block.
ShowInfo ==
    /\ pc = "info"
    /\ IF IsNone(stock_returns) \/ IsNone(benchmark_returns)
       THEN /\ escaped' = Some(<<"TypeError: object of type 'NoneType' has no len()">>)
            /\ infos' = infos
            /\ pc' = "done"
       ELSE /\ escaped' = escaped
            /\ infos' = Append(infos, <<Len(stock_returns[1]), ticker,
                                        Len(benchmark_returns[1]), benchmark>>)
            /\ pc' = "generate"
    /\ UNCHANGED <<inputs, fetched, response, provider_calls, generation, errors,
                   displayed>>

\* html_content = generate_quantstats_report(...); show it or an error.
GenerateOn(failing, m, rend) ==
    LET g == generate_quantstats_report(ticker, report_type, failing, m, rend) IN
    /\ pc = "generate"
    /\ generator_calls' = generator_calls + 1
    /\ basic_failing' = failing
    /\ renderer_calls' =
          IF g.invoked
          THEN Append(renderer_calls,
                      [returns |-> stock_returns[1], benchmark |-> benchmark_returns[1],
                       title |-> <<ticker, " Analysis vs ", benchmark>>,
                       raised |-> rend.kind = "raise"])
          ELSE renderer_calls
    /\ IF ~IsNone(g.out.raised)
       THEN /\ errors' = Append(errors, <<"Error generating report: ">> \o g.out.raised[1])
            /\ displayed' = displayed
       ELSE IF TruthyStr(g.out.value)
       THEN /\ displayed' = Append(displayed, g.out.value)
            /\ errors' = errors
       ELSE /\ errors' = Append(errors, <<"Failed to generate report content">>)
            /\ displayed' = displayed
    /\ pc' = "done"
    /\ UNCHANGED <<inputs, fetched, response, provider_calls, infos, escaped>>

\* Basic: the metric computations may raise; the renderer is not consulted.
GenerateBasic ==
    /\ report_type = "Basic"
    /\ \E failing \in 0..Len(MetricNames) :
         \E m \in Messages :
            /\ (failing = 0 => m = << >>)
            /\ GenerateOn(failing, m, [kind |-> "ok", msg |-> << >>, written |-> << >>])

\* Full / Detailed: the renderer decides.
GenerateRendered ==
    /\ report_type /= "Basic"
    /\ \E rend \in RendererOutcomes : GenerateOn(0, << >>, rend)

Next ==
    \/ \E t \in Tickers : EnterTicker(t)
    \/ \E b \in BenchmarkOptions : SelectBenchmark(b)
    \/ \E rt \in ReportTypes : SelectReportType(rt)
    \/ ClickGenerate
    \/ FetchStock
    \/ CheckStock
    \/ FetchBenchmark
    \/ CheckBenchmark
    \/ ShowInfo
    \/ GenerateBasic
    \/ GenerateRendered

Spec == Init /\ [][Next]_vars

\* ================================================================ claims
\* The provider has been called for the instrument and get_stock_data
\* returned no returns series.
StockFetchFailed == Len(provider_calls) >= 1 /\ IsNone(stock_returns)

\* The same for the benchmark.
BenchFetchFailed == Len(provider_calls) >= 2 /\ IsNone(benchmark_returns)

\* The results under check, as a set of [df, sym, returns, error] records
\* (empty unless a fetch has just returned).
Checking ==
    IF pc = "check_stock"
    THEN {[df |-> response[1], sym |-> ticker, returns |-> stock_returns,
           error |-> stock_error]}
    ELSE IF pc = "check_benchmark"
    THEN {[df |-> response[1], sym |-> benchmark, returns |-> benchmark_returns,
           error |-> bench_error]}
    ELSE {}

\* C1: every failure of the fetch stage ends the request with one error
\* message naming the fetch, no report generated or shown, and no exception
\* leaving the handler.
C1_FetchFailureSurfaced ==
    (pc = "done" /\ (StockFetchFailed \/ BenchFetchFailed)) =>
        /\ Len(errors) = 1
        /\ errors[1][1] \in {"Error fetching ", "Error fetching benchmark data: "}
        /\ generator_calls = 0
        /\ displayed = << >>
        /\ IsNone(escaped)

\* C2: a provider response with zero rows makes get_stock_data return no
\* series and the "No data found" error, for the instrument and for the
\* benchmark alike; the request then ends with that error shown and no
\* report generated, rendered or displayed.
C2_EmptyResponseFails ==
    /\ \A c \in Checking :
          (c.df.kind = "frame" /\ Len(c.df.index) = 0) =>
              /\ IsNone(c.returns)
              /\ c.error = Some(<<"No data found for ", c.sym>>)
    /\ (Len(provider_calls) >= 1 /\ stock_error = Some(<<"No data found for ", ticker>>)) =>
          /\ generator_calls = 0 /\ renderer_calls = << >> /\ displayed = << >>
          /\ Len(provider_calls) = 1
          /\ pc = "done" =>
                errors = << <<"Error fetching ", ticker, " data: ",
                              "No data found for ", ticker>> >>
    /\ (Len(provider_calls) >= 2 /\ bench_error = Some(<<"No data found for ", benchmark>>)) =>
          /\ generator_calls = 0 /\ renderer_calls = << >> /\ displayed = << >>
          /\ pc = "done" =>
                errors = << <<"Error fetching benchmark data: ",
                              "No data found for ", benchmark>> >>

C2_Witness ==
    /\ pc = "done"
    /\ ~IsNone(stock_returns)
    /\ bench_error = Some(<<"No data found for ", benchmark>>)
    /\ Len(errors) = 1

\* The series `s` holds, on the index of `df` (made timezone-naive), the
\* simple returns of `prices`: 0 first, then prices[i]/prices[i-1] - 1.
IsReturnsOf(s, df, prices) ==
    /\ Len(s) = Len(prices)
    /\ Len(s) = Len(df.index)
    /\ \A i \in 1..Len(s) :
          /\ s[i].ret[2] > 0
          /\ s[i].date = df.index[i] - (IF IsNone(df.tz) THEN 0 ELSE df.tz[1])
          /\ IF i = 1 THEN s[i].ret[1] = 0
             ELSE s[i].ret[1] * prices[i - 1] = (prices[i] - prices[i - 1]) * s[i].ret[2]

\* C3: for a response that is not empty (some row and some column), the
\* returns are those of 'Adj Close' when that column exists, else those of
\* 'Close' when that exists, else the fetch fails with the no-price-column
\* error and no series.
C3_PriceColumnFallback ==
    \A c \in Checking :
        (c.df.kind = "frame" /\ Len(c.df.index) > 0 /\ c.df.columns /= {}) =>
            IF "Adj Close" \in c.df.columns
            THEN /\ IsNone(c.error) /\ ~IsNone(c.returns)
                 /\ IsReturnsOf(c.returns[1], c.df, c.df.data["Adj Close"])
            ELSE IF "Close" \in c.df.columns
            THEN /\ IsNone(c.error) /\ ~IsNone(c.returns)
                 /\ IsReturnsOf(c.returns[1], c.df, c.df.data["Close"])
            ELSE /\ IsNone(c.returns)
                 /\ c.error = Some(<<"Could not find price data for ", c.sym>>)

\* Both price columns present and carrying different returns.
C3_Witness ==
    \E c \in Checking :
        /\ c.df.kind = "frame"
        /\ {"Adj Close", "Close"} \subseteq c.df.columns
        /\ Len(c.df.index) = 2
        /\ c.df.data["Adj Close"] = <<100, 110>>
        /\ c.df.data["Close"] = <<110, 100>>
        /\ ~IsNone(c.returns)
        /\ c.returns[1][2].ret = <<1, 10>>

\* C4: while the requested tier is Basic the renderer has not been invoked,
\* whether the Basic report succeeded or failed.
C4_BasicNeverRenders == (report_type = "Basic") => (renderer_calls = << >>)

C4_Witness ==
    /\ pc = "done"
    /\ report_type = "Basic"
    /\ generator_calls = 1
    /\ Len(displayed) = 1

\* C5: every call of the renderer receives two series of the same length
\* carrying the same dates index for index.
C5_RendererGetsAlignedSeries ==
    \A k \in 1..Len(renderer_calls) :
        LET a == renderer_calls[k].returns
            b == renderer_calls[k].benchmark
        IN /\ Len(a) = Len(b)
           /\ \A i \in 1..Len(a) : a[i].date = b[i].date

\* C6: when the renderer raised, the request ends with exactly one error
\* message, the render error, nothing displayed and nothing escaping.
C6_RenderFaultSurfaced ==
    (\E k \in 1..Len(renderer_calls) : renderer_calls[k].raised) =>
        /\ pc = "done"
        /\ Len(errors) = 1
        /\ Len(errors[1]) >= 2
        /\ errors[1][1] = "Error generating report: "
        /\ errors[1][2] = "Error generating report: "
        /\ displayed = << >>
        /\ IsNone(escaped)

C6_Witness ==
    /\ pc = "done"
    /\ report_type = "Detailed"
    /\ Len(renderer_calls) = 1
    /\ renderer_calls[1].raised

\* C7: a response with exactly one price row yields no returns series.
C7_SinglePriceRowFails ==
    \A c \in Checking :
        (c.df.kind = "frame" /\ Len(c.df.index) = 1) => IsNone(c.returns)

\* C8: when one metric of the Basic report cannot be computed the report is
\* still produced and displayed, and no error is shown.
C8_MetricFailureIsolated ==
    (pc = "done" /\ report_type = "Basic" /\ generator_calls = 1 /\ basic_failing /= 0) =>
        /\ Len(displayed) = 1
        /\ errors = << >>

\* C9: at most two provider calls and one generator call; the benchmark is
\* fetched only after the instrument fetch succeeded; generation starts only
\* after both fetches succeeded.
C9_ShortCircuitOrder ==
    /\ Len(provider_calls) <= 2
    /\ generator_calls <= 1
    /\ (Len(provider_calls) = 2) => ~IsNone(stock_returns)
    /\ (generator_calls = 1) => (~IsNone(stock_returns) /\ ~IsNone(benchmark_returns))

\* C10: a finished request has shown exactly one of: one error message, one
\* report; a report only after two successful fetches and with content.
C10_OneTerminalOutcome ==
    (pc = "done") =>
        /\ Len(errors) + Len(displayed) = 1
        /\ (Len(displayed) = 1) =>
              /\ ~IsNone(stock_returns) /\ ~IsNone(benchmark_returns)
              /\ displayed[1] /= << >>

====
